---- MODULE Spec2Model ----
(***************************************************************************)
(* Model of the SHL assessment recommendation service: the FAISS search   *)
(* engine (search.py), the result formatter (utils.py), the embedding     *)
(* generator (embedding.py), the recommendation enhancer (enhancer.py)    *)
(* and the FastAPI handlers startup_event / recommend (app.py).           *)
(*                                                                         *)
(* Python values are records [t, n, s]: t is the Python type, n an integer *)
(* payload and s a string payload.  A float is abstracted to an integer    *)
(* (s = "fin"), NaN (s = "nan"), +/-Infinity (s = "inf", n = 1 or -1) or   *)
(* the lowest finite float32 (s = "lowest"), the score FAISS gives to a    *)
(* result slot it could not fill.                                          *)
(*                                                                         *)
(* A vector of dimension d is kept as its dimension and its two leading    *)
(* components; the remaining components are 0 and add nothing to an inner  *)
(* product.                                                                *)
(*                                                                         *)
(* Spec is the web application: startup and /recommend requests against    *)
(* the artifacts found on disk.  EngineSpec is a FAISSSearchEngine driven  *)
(* directly, as setup.py and scripts do: build, save, load and search.     *)
(* SanitizeSpec applies ensure_json_serializable to nested structures,     *)
(* IngestSpec runs the scraper and clean_scraped_data, SetupSpec runs      *)
(* setup() before the service, and ReloadSpec runs load_index statement by *)
(* statement beside a request on the serving engine.                       *)
(***************************************************************************)
EXTENDS Integers, Sequences, FiniteSets, TLC

\* ----------------------------------------------------------------- bounds
MaxN == 2
MaxK == 3

\* ------------------------------------------------------ program constants
embedding_size == 768
DefaultDimension == 768
OtherDimension == 384

\* ----------------------------------------------------------- Python values
PyInt(i) == [t |-> "int", n |-> i, s |-> ""]
PyStr(x) == [t |-> "str", n |-> 0, s |-> x]
NpInt(i) == [t |-> "np_int", n |-> i, s |-> ""]
Fin(i) == [t |-> "float", n |-> i, s |-> "fin"]
NaN == [t |-> "float", n |-> 0, s |-> "nan"]
PosInf == [t |-> "float", n |-> 1, s |-> "inf"]
NegInf == [t |-> "float", n |-> -1, s |-> "inf"]
Lowest == [t |-> "float", n |-> 0, s |-> "lowest"]
ZeroFloat == Fin(0)
PyBool(b) == [t |-> "bool", n |-> IF b THEN 1 ELSE 0, s |-> ""]
PyNone == [t |-> "none", n |-> 0, s |-> ""]
\* values of types json does not know: a numpy float32 and a pandas Timestamp
NpFloat32NaN == [t |-> "np_float32", n |-> 0, s |-> "nan"]
Timestamp(i) == [t |-> "Timestamp", n |-> i, s |-> ""]
\* containers: a list of values, a dict as its keys and, in the same order,
\* its values
PyList(items) == [t |-> "list", items |-> items]
PyDict(keys, items) == [t |-> "dict", keys |-> keys, items |-> items]

isnan(x) == x.t = "float" /\ x.s = "nan"
isinf(x) == x.t = "float" /\ x.s = "inf"
isfinite(x) == x.t = "float" /\ x.s \in {"fin", "lowest"}

\* float32 multiplication and addition on the abstract floats
FMul(a, b) ==
    IF isnan(a) \/ isnan(b) THEN NaN
    ELSE IF isinf(a) \/ isinf(b)
         THEN IF a.n = 0 \/ b.n = 0 THEN NaN
              ELSE IF (a.n > 0) = (b.n > 0) THEN PosInf ELSE NegInf
         ELSE Fin(a.n * b.n)

FAdd(a, b) ==
    IF isnan(a) \/ isnan(b) THEN NaN
    ELSE IF isinf(a) /\ isinf(b) THEN (IF a.n = b.n THEN a ELSE NaN)
    ELSE IF isinf(a) THEN a
    ELSE IF isinf(b) THEN b
    ELSE Fin(a.n + b.n)

\* a < b on floats; every comparison with NaN is false
FLess(a, b) ==
    IF isnan(a) \/ isnan(b) THEN FALSE
    ELSE IF a = b THEN FALSE
    ELSE IF a = NegInf \/ b = PosInf THEN TRUE
    ELSE IF a = PosInf \/ b = NegInf THEN FALSE
    ELSE IF a = Lowest THEN TRUE
    ELSE IF b = Lowest THEN FALSE
    ELSE a.n < b.n

RECURSIVE InnerProduct(_, _)
InnerProduct(a, b) ==
    IF a = <<>> THEN ZeroFloat
    ELSE FAdd(FMul(Head(a), Head(b)), InnerProduct(Tail(a), Tail(b)))

\* ------------------------------------------------------------ input pools
Dims == {DefaultDimension, OtherDimension}
VecPool == { <<Fin(1), Fin(0)>>, <<Fin(1), Fin(1)>>, <<PosInf, Fin(-1)>> }
\* query strings, as sequences of characters
Queries == { <<>>, <<" ">>, <<"a">>, <<" ", "a", " ">>, <<"a", "b">> }

\* row i of the catalogue table as pandas reads it from the CSV; the
\* description cell of row 2 is empty in the file and is read as NaN
CatalogRow(i) ==
    [name |-> PyStr("name" \o ToString(i)),
     url |-> PyStr("url" \o ToString(i)),
     description |-> IF i = 2 THEN NaN ELSE PyStr("desc"),
     duration |-> PyStr("30 min"),
     remote |-> PyStr("Yes"),
     adaptive |-> PyStr("No"),
     test_type |-> PyStr("Cognitive")]

Table(m) == [i \in 1..m |-> CatalogRow(i)]

RECURSIVE SeqsUpTo(_, _)
SeqsUpTo(S, n) ==
    IF n = 0 THEN { <<>> }
    ELSE LET shorter == SeqsUpTo(S, n - 1)
         IN shorter \cup { Append(q, x) : q \in { r \in shorter : Len(r) = n - 1 }, x \in S }

\* ------------------------------------------------------------------ state
VARIABLES
    indexFile,               \* the artifact at shl_faiss_index.bin
    dfFile,                  \* the artifact at shl_assessments.csv
    apiKey,                  \* whether GEMINI_API_KEY is set in the environment
    hashSeed,                \* the process's string-hash randomisation seed
    started,                 \* startup_event has run
    search_engine,           \* app.py global
    embedding_generator,     \* app.py global
    recommendation_enhancer, \* app.py global
    request,                 \* the last /recommend request served
    response,                \* and the response it got
    tieOrder,                \* how the FAISS build orders equal scores
    eng,                     \* a FAISSSearchEngine driven directly (setup, scripts)
    succeeded,               \* some build_index or load_index of eng has returned
    saver,                   \* the engine as it was at the save that wrote both artifacts
    last,                    \* the last call made on eng and its outcome
    torn,                    \* the index artifact comes from a save that did not write the table
    structure,               \* a structure handed to ensure_json_serializable
    sanitized,               \* what the sanitizer made of it, once and twice
    page,                    \* the product links found on the catalogue pages
    ingest,                  \* how far ingestion has come and what it has produced
    setupDone,               \* setup() has logged "Setup complete!"
    reload_pc,               \* the next statement of a load_index on the serving engine
    reader                   \* what a request in flight has read of the serving engine

appVars == <<apiKey, hashSeed, started, search_engine, embedding_generator,
             recommendation_enhancer, request, response, setupDone>>
engineVars == <<eng, succeeded, saver, last, torn>>
vars == <<indexFile, dfFile, apiKey, hashSeed, started, search_engine,
          embedding_generator, recommendation_enhancer, request, response,
          tieOrder, eng, succeeded, saver, last, torn, structure, sanitized,
          page, ingest, setupDone, reload_pc, reader>>
sanitizerVars == <<structure, sanitized>>
ingestVars == <<page, ingest>>
reloadVars == <<reload_pc, reader>>
\* the variables of what is checked apart from the service and the engine
idleVars == <<sanitizerVars, ingestVars, reloadVars>>

\* --------------------------------------------------------------- artifacts
\* exists: the path is a file; ok: its content can be parsed
NoIndex == [some |-> FALSE, d |-> 0, vecs |-> <<>>]
NoDf == [some |-> FALSE, rows |-> <<>>]
IndexFiles ==
    { [exists |-> FALSE, ok |-> FALSE, index |-> NoIndex],
      [exists |-> TRUE, ok |-> FALSE, index |-> NoIndex] }
    \cup { [exists |-> TRUE, ok |-> TRUE, index |-> [some |-> TRUE, d |-> d, vecs |-> v]] :
             d \in Dims, v \in SeqsUpTo(VecPool, MaxN) }
DfFiles ==
    { [exists |-> FALSE, ok |-> FALSE, df |-> NoDf],
      [exists |-> TRUE, ok |-> FALSE, df |-> NoDf] }
    \cup { [exists |-> TRUE, ok |-> TRUE, df |-> [some |-> TRUE, rows |-> Table(m)]] :
             m \in 0..MaxN }

\* ------------------------------------------------------- FAISSSearchEngine
None == [some |-> FALSE, index |-> NoIndex, df |-> NoDf, dimension |-> 0]
NoGenerator == [some |-> FALSE, use_dummy |-> FALSE]
NoEnhancer == [some |-> FALSE, model |-> FALSE]

FAISSSearchEngine(dimension) ==
    [some |-> TRUE, index |-> NoIndex, df |-> NoDf, dimension |-> dimension]

\* mutant: only the index path is tested for existence; a missing table is
\* met by read_csv after the index has been read
load_index_index_path_only(self, ifile, dfile) ==
    IF ~ifile.exists
    THEN [engine |-> self, raised |-> "FileNotFoundError"]
    ELSE IF ~ifile.ok
    THEN [engine |-> self, raised |-> "RuntimeError"]
    ELSE LET withIndex == [self EXCEPT !.index = ifile.index]
         IN IF ~dfile.exists
            THEN [engine |-> withIndex, raised |-> "FileNotFoundError"]
            ELSE IF ~dfile.ok
            THEN [engine |-> withIndex, raised |-> "ParserError"]
            ELSE [engine |-> [withIndex EXCEPT !.df = dfile.df,
                                              !.dimension = ifile.index.d],
                  raised |-> ""]

\* mutant: the dimension of the engine is not taken from the index read
load_index_keeps_dimension(self, ifile, dfile) ==
    IF ~ifile.exists \/ ~dfile.exists
    THEN [engine |-> self, raised |-> "FileNotFoundError"]
    ELSE IF ~ifile.ok
    THEN [engine |-> self, raised |-> "RuntimeError"]
    ELSE LET withIndex == [self EXCEPT !.index = ifile.index]
         IN IF ~dfile.ok
            THEN [engine |-> withIndex, raised |-> "ParserError"]
            ELSE [engine |-> [withIndex EXCEPT !.df = dfile.df], raised |-> ""]

\* load_index: the engine after the call and whether the call raised.  The
\* assignments made before the raising statement stay.
load_index(self, ifile, dfile) ==
    IF ~ifile.exists \/ ~dfile.exists
    THEN [engine |-> self, raised |-> "FileNotFoundError"]
    ELSE IF ~ifile.ok
    THEN [engine |-> self, raised |-> "RuntimeError"]
    ELSE LET withIndex == [self EXCEPT !.index = ifile.index]
         IN IF ~dfile.ok
            THEN [engine |-> withIndex, raised |-> "ParserError"]
            ELSE [engine |-> [withIndex EXCEPT !.df = dfile.df,
                                              !.dimension = ifile.index.d],
                  raised |-> ""]

\* -------------------------------------------- build_index, build_faiss_index
\* an embedding is [d: its length, c: its two leading components]; a batch
\* is a list of embeddings
\* mutant: a batch of mixed lengths is taken for a rectangular one
ragged_never(embeddings) == FALSE

\* np.array(embeddings).astype('float32') raises ValueError on a batch whose
\* rows differ in length
ragged(embeddings) ==
    \E i \in 1..Len(embeddings) : embeddings[i].d # embeddings[1].d

\* build_index: the engine after the call and whether the call raised.  The
\* new, empty IndexFlatIP is assigned before index.add can raise (on an
\* empty batch, or on rows whose length is not self.dimension).
build_index(self, embeddings, df) ==
    IF ragged(embeddings)
    THEN [engine |-> self, raised |-> "ValueError"]
    ELSE LET withIndex ==
                 [self EXCEPT !.index = [some |-> TRUE, d |-> self.dimension, vecs |-> <<>>]]
         IN IF embeddings = <<>>
            THEN [engine |-> withIndex, raised |-> "ValueError"]
            ELSE IF embeddings[1].d # self.dimension
            THEN [engine |-> withIndex, raised |-> "AssertionError"]
            ELSE [engine |-> [withIndex EXCEPT
                                 !.index.vecs = [i \in 1..Len(embeddings) |-> embeddings[i].c],
                                 !.df = df],
                  raised |-> ""]

\* build_faiss_index: the engine returned, or None and the exception raised
build_faiss_index(embedding_list, df) ==
    IF embedding_list = <<>>
    THEN [engine |-> None, raised |-> "Empty embedding list"]
    ELSE LET dimension == embedding_list[1].d
             r == build_index(FAISSSearchEngine(dimension), embedding_list, df)
         IN IF r.raised # "" THEN [engine |-> None, raised |-> r.raised] ELSE r

\* ------------------------------------------------------------- save_index
\* a cell written by DataFrame.to_csv and read back by pd.read_csv: None,
\* NaN and the empty string are all written as an empty field, which is
\* read as NaN
csv_cell(x) ==
    IF x.t = "none" \/ isnan(x) \/ x = PyStr("") THEN NaN ELSE x

read_csv_of_to_csv(df) ==
    [some |-> TRUE,
     rows |-> [i \in 1..Len(df.rows) |->
                 [f \in DOMAIN df.rows[i] |-> csv_cell(df.rows[i][f])]]]

\* save_index: the two artifacts after the call and whether it raised.  With
\* no index the method logs an error and returns; with an index and no table
\* the index is written before self.df.to_csv raises.
save_index(self, ifile, dfile) ==
    IF ~self.index.some
    THEN [ifile |-> ifile, dfile |-> dfile, raised |-> "", written |-> {}]
    ELSE LET writtenIndex == [exists |-> TRUE, ok |-> TRUE, index |-> self.index]
         IN IF ~self.df.some
            THEN [ifile |-> writtenIndex, dfile |-> dfile,
                  raised |-> "'NoneType' object has no attribute 'to_csv'",
                  written |-> {"index"}]
            ELSE [ifile |-> writtenIndex,
                  dfile |-> [exists |-> TRUE, ok |-> TRUE, df |-> read_csv_of_to_csv(self.df)],
                  raised |-> "", written |-> {"index", "df"}]

\* ------------------------------------------------- FAISSSearchEngine.search
Min(a, b) == IF a < b THEN a ELSE b

\* faiss.IndexFlatIP.search for one query: the k best inner products in
\* descending order.  FAISS does not specify the order of equal scores: its
\* result heap breaks ties by label one way or the other depending on the
\* build, the same way on every call (tieOrder).  A stored vector enters the
\* heap only if its score compares greater than the lowest float, so a NaN
\* or -Infinity score never does; the slots left over carry the label -1 and
\* the lowest float.
TieOrders == {"asc", "desc"}

Score(index, c, i) == InnerProduct(c, index.vecs[i])

Better(index, c, i, j) ==
    \/ FLess(Score(index, c, j), Score(index, c, i))
    \/ /\ Score(index, c, i) = Score(index, c, j)
       /\ IF tieOrder = "asc" THEN i < j ELSE i > j

RECURSIVE Ranked(_, _, _)
Ranked(index, c, S) ==
    IF S = {} THEN <<>>
    ELSE LET best == CHOOSE i \in S : \A j \in S \ {i} : Better(index, c, i, j)
         IN <<best>> \o Ranked(index, c, S \ {best})

IndexFlatIP_search(index, c, k) ==
    LET cand == { i \in 1..Len(index.vecs) : FLess(Lowest, Score(index, c, i)) }
        top == Ranked(index, c, cand)
    IN [indices |-> [j \in 1..k |-> IF j <= Len(top) THEN top[j] - 1 ELSE -1],
        scores |-> [j \in 1..k |-> IF j <= Len(top) THEN Score(index, c, top[j]) ELSE Lowest]]

\* mutant: a query of another length than the index's is searched all the same
search_reshaped(self, query_embedding, k) ==
    IF ~self.index.some
    THEN [raised |-> "No index has been built or loaded", indices |-> <<>>, scores |-> <<>>]
    ELSE LET r == IndexFlatIP_search(self.index, query_embedding.c, k)
         IN [raised |-> "", indices |-> r.indices, scores |-> r.scores]

\* search: (indices, distances) as Python lists, or the exception raised;
\* the faiss wrapper asserts that the query has the index's dimension
search(self, query_embedding, k) ==
    IF ~self.index.some
    THEN [raised |-> "No index has been built or loaded", indices |-> <<>>, scores |-> <<>>]
    ELSE IF query_embedding.d # self.index.d
    THEN [raised |-> "AssertionError", indices |-> <<>>, scores |-> <<>>]
    ELSE LET r == IndexFlatIP_search(self.index, query_embedding.c, k)
         IN [raised |-> "", indices |-> r.indices, scores |-> r.scores]

\* mutant: search records the dimension of the query it was given
search_self_redimension(self, query_embedding, k) ==
    [self EXCEPT !.dimension = query_embedding.d]

\* what search leaves in the engine it is called on: it assigns no attribute
search_self(self, query_embedding, k) == self

search_index(query_embedding, engine, k) == search(engine, query_embedding, k)

\* ------------------------------------------------------ EmbeddingGenerator
EmbeddingGenerator(api_key, configure_ok) ==
    [some |-> TRUE, use_dummy |-> ~api_key \/ ~configure_ok]

Code(ch) == CASE ch = " " -> 32 [] ch = "a" -> 97 [] ch = "b" -> 98 [] OTHER -> 63

\* hash(text) % 2**32 for the process's hash seed; the model keeps the low
\* 16 bits of the 32 (TLC's integers are 32 bits wide)
RECURSIVE Hash(_, _)
Hash(seed, text) ==
    IF text = <<>> THEN seed
    ELSE Hash((seed * 31 + Code(Head(text))) % (2 ^ 16), Tail(text))

\* np.random.seed(h); np.random.normal(0, 1, embedding_size), normalised
_generate_dummy_embedding(seed, text) ==
    LET h == Hash(seed, text)
    IN [d |-> embedding_size,
        c |-> << Fin(IF h % 2 = 0 THEN 1 ELSE -1), Fin(IF (h \div 2) % 2 = 0 THEN 1 ELSE 0) >>]

\* prov is what the Gemini call does this time: it fails, or it returns a vector
generate_embedding(self, seed, text, prov) ==
    IF self.use_dummy THEN _generate_dummy_embedding(seed, text)
    ELSE IF prov.fails THEN _generate_dummy_embedding(seed, text)
    ELSE prov.embedding

Providers ==
    { [fails |-> TRUE, embedding |-> [d |-> 0, c |-> <<>>]] }
    \cup { [fails |-> FALSE, embedding |-> [d |-> d, c |-> c]] : d \in Dims, c \in VecPool }
ProviderUnused == [fails |-> FALSE, embedding |-> [d |-> 0, c |-> <<>>]]

\* ------------------------------------------------------------ JSON results
\* A response body: the set of its top-level keys and the value of each one
\* (results: list of result objects; error, detail: strings; enhanced: the kind
\* of content the enhancer attached).
Body(keys, results, error, enhanced, detail) ==
    [keys |-> keys, results |-> results, error |-> error, enhanced |-> enhanced,
     detail |-> detail]

isnumber(x) == x.t \in {"int", "float", "bool"}

\* df.iloc[idx]: a negative idx counts from the end of the table
iloc_ok(df, idx) == df.some /\ idx < Len(df.rows) /\ idx >= -Len(df.rows)
iloc(df, idx) == IF idx >= 0 THEN df.rows[idx + 1] ELSE df.rows[Len(df.rows) + idx + 1]

\* mutant: the type test of the score check is inverted
format_score_inverted(score) ==
    IF isnumber(score) \/ isnan(score) \/ isinf(score) THEN ZeroFloat ELSE score

\* utils.format_results, lines 77-83
format_score(score) ==
    IF ~isnumber(score) \/ isnan(score) \/ isinf(score) THEN ZeroFloat ELSE score

\* mutant: the 0-based loop index is used as the rank
format_rank_zero_based(i) == PyInt(i)

format_rank(i) == PyInt(i + 1)

\* utils.format_results; i is the 0-based position in zip(indices, scores)
format_result(i, idx, score, df) ==
    LET row == iloc(df, idx)
    IN [rank |-> format_rank(i),
        similarity_score |-> format_score(score),
        name |-> row.name,
        url |-> row.url,
        description |-> row.description,
        duration |-> row.duration,
        remote |-> row.remote,
        adaptive |-> row.adaptive,
        test_type |-> row.test_type]

format_results_error(msg) == Body({"error"}, <<>>, msg, "", "")

format_results(indices, scores, df) ==
    LET n == Min(Len(indices), Len(scores))
    IN IF n > 0 /\ ~df.some
       THEN format_results_error("'NoneType' object has no attribute 'iloc'")
       ELSE IF \E i \in 1..n : ~iloc_ok(df, indices[i])
       THEN format_results_error("single positional indexer is out-of-bounds")
       ELSE Body({"results"},
                 [i \in 1..n |-> format_result(i - 1, indices[i], scores[i], df)],
                 "", "", "")

\* app.recommend, lines 111-125
sanitize_score(score) ==
    IF score.t \in {"int", "float", "bool"}
    THEN IF isnan(score) \/ isinf(score) THEN ZeroFloat ELSE score
    ELSE ZeroFloat

sanitized_scores(scores) == [i \in 1..Len(scores) |-> sanitize_score(scores[i])]

\* str(obj) of a value that is not a JSON primitive
str(obj) == IF obj.t = "str" THEN obj ELSE PyStr(ToString(obj.n))

\* mutant: the float branch hands every float back as it is
ensure_json_serializable_leaf_keeps_nan(obj) ==
    IF obj.t \in {"int", "bool", "str", "none", "float"} THEN obj
    ELSE str(obj)

\* mutant: strings fall through to the last branch, which quotes them
ensure_json_serializable_leaf_repr(obj) ==
    IF obj.t \in {"int", "bool", "none"} THEN obj
    ELSE IF obj.t = "float" THEN (IF isnan(obj) \/ isinf(obj) THEN ZeroFloat ELSE obj)
    ELSE PyStr("'" \o str(obj).s \o "'")

\* app.recommend.ensure_json_serializable on a leaf
ensure_json_serializable_leaf(obj) ==
    IF obj.t \in {"int", "bool", "str", "none"} THEN obj
    ELSE IF obj.t = "float" THEN (IF isnan(obj) \/ isinf(obj) THEN ZeroFloat ELSE obj)
    ELSE str(obj)

\* ... on the whole body: mappings key-wise, lists element-wise
ensure_json_serializable(body) ==
    [body EXCEPT !.results =
        [i \in 1..Len(body.results) |->
            [f \in DOMAIN body.results[i] |-> ensure_json_serializable_leaf(body.results[i][f])]]]

\* ensure_json_serializable on any structure (the functions of app.py,
\* enhancer.py and streamlit_app.py are the same code)
RECURSIVE deep_ensure_json_serializable(_)
deep_ensure_json_serializable(x) ==
    IF x.t = "dict"
    THEN PyDict(x.keys, [i \in 1..Len(x.items) |-> deep_ensure_json_serializable(x.items[i])])
    ELSE IF x.t = "list"
    THEN PyList([i \in 1..Len(x.items) |-> deep_ensure_json_serializable(x.items[i])])
    ELSE ensure_json_serializable_leaf(x)

\* json.dumps(body) raises on a value of a type the encoder does not know
json_dumps_raises(body) ==
    \E i \in 1..Len(body.results) : \E f \in DOMAIN body.results[i] :
        body.results[i][f].t \notin {"int", "float", "bool", "str", "none"}

\* app.recommend, lines 158-170: the minimal response after a failed
\* json.dumps; raised is set when df.iloc raises
safe_results(indices, scores, df) ==
    LET n == Min(Len(indices), Len(scores))
    IN IF \E i \in 1..n : ~iloc_ok(df, indices[i])
       THEN [raised |-> "single positional indexer is out-of-bounds",
             body |-> Body({}, <<>>, "", "", "")]
       ELSE [raised |-> "",
             body |-> Body({"results", "error"},
                           [i \in 1..n |->
                               [rank |-> PyInt(i),
                                similarity_score |-> ZeroFloat,
                                name |-> str(iloc(df, indices[i]).name),
                                url |-> str(iloc(df, indices[i]).url)]],
                           "Unable to serialize full results", "", "")]

\* --------------------------------------------------- RecommendationEnhancer
RecommendationEnhancer(api_key, configure_ok) ==
    [some |-> TRUE, model |-> api_key /\ configure_ok]

\* what the Gemini model does with one prompt: "ok" (text holding JSON),
\* "unparsable" (text _parse_response cannot parse), "raises"
EnhancerOutcomes == {"ok", "unparsable", "raises"}

_sanitize_leaf(obj) ==
    IF obj.t \in {"int", "float", "bool", "str", "none"} THEN obj ELSE str(obj)

_sanitize_results(body) ==
    IF ~json_dumps_raises(body) THEN body
    ELSE [body EXCEPT !.results =
            [i \in 1..Len(body.results) |->
                [f \in DOMAIN body.results[i] |-> _sanitize_leaf(body.results[i][f])]]]

_parse_response(outcome) == IF outcome = "ok" THEN "parsed" ELSE "default"

\* mutant: the similarity scores are reset while the results are revalidated
_ensure_json_serializable_rescored(body) ==
    [body EXCEPT !.results =
        [i \in 1..Len(body.results) |->
            [body.results[i] EXCEPT !.similarity_score = ZeroFloat]]]

_ensure_json_serializable(body) ==
    [body EXCEPT !.results =
        [i \in 1..Len(body.results) |->
            [f \in DOMAIN body.results[i] |-> ensure_json_serializable_leaf(body.results[i][f])]]]

\* mutant: a failure of the model call is returned as an error object
enhance_recommendations_error(self, raw_results, outcome) ==
    IF ~self.model THEN raw_results
    ELSE LET sanitized_results == _sanitize_results(raw_results)
         IN IF "results" \notin sanitized_results.keys \/ sanitized_results.results = <<>>
            THEN sanitized_results
            ELSE IF outcome = "raises"
            THEN Body({"error", "results"}, <<>>, "enhancement failed", "", "")
            ELSE _ensure_json_serializable(
                    Body({"results", "enhanced"}, sanitized_results.results, "",
                         _parse_response(outcome), ""))

enhance_recommendations(self, raw_results, outcome) ==
    IF ~self.model THEN raw_results
    ELSE LET sanitized_results == _sanitize_results(raw_results)
         IN IF "results" \notin sanitized_results.keys \/ sanitized_results.results = <<>>
            THEN sanitized_results
            ELSE IF outcome = "raises"
            THEN _sanitize_results(raw_results)
            ELSE _ensure_json_serializable(
                    Body({"results", "enhanced"}, sanitized_results.results, "",
                         _parse_response(outcome), ""))

\* ------------------------------------------------------------ app.recommend
RECURSIVE lstrip(_)
lstrip(q) == IF q # <<>> /\ Head(q) = " " THEN lstrip(Tail(q)) ELSE q

RECURSIVE rstrip(_)
rstrip(q) ==
    IF q # <<>> /\ q[Len(q)] = " " THEN rstrip(SubSeq(q, 1, Len(q) - 1)) ELSE q

strip(q) == rstrip(lstrip(q))

\* mutant: the query is tested without strip()
query_is_empty(query) == query = <<>>

\* app.recommend line 97: `not query.strip()`
query_is_blank(query) == strip(query) = <<>>

HTTPException(status_code, detail) ==
    [status |-> status_code, body |-> Body({"detail"}, <<>>, "", "", detail),
     calls |-> {}, prov |-> ProviderUnused, enh |-> "unused"]

\* the handler's `except Exception` clause, lines 191-194
error_response(e, calls, prov) ==
    [status |-> 200, body |-> Body({"error", "results"}, <<>>, e, "", ""),
     calls |-> calls, prov |-> prov, enh |-> "unused"]

\* lines 172-190: the response after the optional enhancement
enhance_step(results, enhance, outcome, calls, prov) ==
    IF enhance /\ recommendation_enhancer.some /\ recommendation_enhancer.model
    THEN LET enhanced_results ==
                 enhance_recommendations(recommendation_enhancer, results, outcome)
         IN [status |-> 200,
             body |-> IF json_dumps_raises(enhanced_results) THEN results
                      ELSE enhanced_results,
             calls |-> calls \cup {"enhance"}, prov |-> prov, enh |-> outcome]
    ELSE [status |-> 200, body |-> results, calls |-> calls, prov |-> prov,
          enh |-> "unused"]

\* the whole handler: the response, the collaborators it called ("embed",
\* "provider", "search", "format", "enhance") and the outcomes it consumed
recommend(query, k, enhance, provider, outcome) ==
    IF query_is_blank(query) THEN HTTPException(400, "Query cannot be empty")
    ELSE IF ~search_engine.some THEN HTTPException(503, "Search engine not initialized")
    ELSE IF ~embedding_generator.some
    THEN error_response("'NoneType' object has no attribute 'generate_embedding'",
                        {}, ProviderUnused)
    ELSE
    LET prov == IF embedding_generator.use_dummy THEN ProviderUnused ELSE provider
        c1 == {"embed"} \cup (IF embedding_generator.use_dummy THEN {} ELSE {"provider"})
        query_embedding == generate_embedding(embedding_generator, hashSeed, query, prov)
        found == search_index(query_embedding, search_engine, k)
        c2 == c1 \cup {"search"}
    IN IF found.raised # "" THEN error_response(found.raised, c2, prov)
       ELSE
       LET scores == sanitized_scores(found.scores)
           results == ensure_json_serializable(
                          format_results(found.indices, scores, search_engine.df))
           c3 == c2 \cup {"format"}
       IN IF json_dumps_raises(results)
          THEN LET safe == safe_results(found.indices, scores, search_engine.df)
               IN IF safe.raised # "" THEN error_response(safe.raised, c3, prov)
                  ELSE enhance_step(safe.body, enhance, outcome, c3, prov)
          ELSE enhance_step(results, enhance, outcome, c3, prov)

\* app.health_check: the status field of the answer of GET /health
health_check ==
    IF ~search_engine.some \/ ~embedding_generator.some
    THEN [status |-> "error", message |-> "Service not fully initialized"]
    ELSE [status |-> "ok", message |-> "Service is up and running"]

\* ----------------------------------------------------------------- actions
NoRequest == [query |-> <<>>, k |-> 0, enhance |-> FALSE, prov |-> ProviderUnused,
              enh |-> "unused"]
NoResponse == [status |-> 0, body |-> Body({}, <<>>, "", "", ""), calls |-> {}]
\* no call on eng is under way
NoQuery == [d |-> 0, c |-> <<>>]
NoCall == [op |-> "", pre |-> None, raised |-> "", batch |-> <<>>, fresh |-> FALSE,
           written |-> {}, q |-> NoQuery, k |-> 0, indices |-> <<>>, scores |-> <<>>]

\* nothing has been handed to the sanitizer
NotSanitized == [passes |-> 0, once |-> PyNone, twice |-> PyNone]
SanitizerIdle == structure = PyNone /\ sanitized = NotSanitized
\* no scraping is under way
NotIngested == [stage |-> "", links |-> <<>>, df |-> <<>>]
IngestIdle == page = <<>> /\ ingest = NotIngested
\* no load_index runs beside the requests
NoReader == [pc |-> "", index |-> NoIndex, df |-> NoDf]
ReloadIdle == reload_pc = "" /\ reader = NoReader
\* the service has not been started
AppIdle ==
    /\ apiKey = FALSE
    /\ hashSeed = 0
    /\ started = FALSE
    /\ search_engine = None
    /\ embedding_generator = NoGenerator
    /\ recommendation_enhancer = NoEnhancer
    /\ request = NoRequest
    /\ response = NoResponse
    /\ setupDone = FALSE
\* no engine is driven directly
EngineIdle ==
    /\ eng = FAISSSearchEngine(DefaultDimension)
    /\ succeeded = FALSE
    /\ saver = None
    /\ last = NoCall
    /\ torn = FALSE
NoFiles ==
    /\ indexFile = [exists |-> FALSE, ok |-> FALSE, index |-> NoIndex]
    /\ dfFile = [exists |-> FALSE, ok |-> FALSE, df |-> NoDf]

Init ==
    /\ indexFile \in IndexFiles
    /\ dfFile \in DfFiles
    /\ apiKey \in BOOLEAN
    /\ hashSeed \in {0, 1}
    /\ started = FALSE
    /\ search_engine = None
    /\ embedding_generator = NoGenerator
    /\ recommendation_enhancer = NoEnhancer
    /\ request = NoRequest
    /\ response = NoResponse
    /\ setupDone = FALSE
    /\ tieOrder \in TieOrders
    /\ eng = FAISSSearchEngine(DefaultDimension)
    /\ succeeded = FALSE
    /\ saver = None
    /\ last = NoCall
    /\ torn = FALSE
    /\ SanitizerIdle
    /\ IngestIdle
    /\ ReloadIdle

\* app.startup_event: an exception of load_index is logged and swallowed
startup_engine(ifile, dfile) ==
    IF ifile.exists /\ dfile.exists
    THEN load_index(FAISSSearchEngine(DefaultDimension), ifile, dfile).engine
    ELSE None

startup_event ==
    /\ ~started
    /\ \E configure_ok \in BOOLEAN, model_ok \in BOOLEAN :
          /\ embedding_generator' = EmbeddingGenerator(apiKey, configure_ok)
          /\ recommendation_enhancer' = RecommendationEnhancer(apiKey, model_ok)
    /\ search_engine' = startup_engine(indexFile, dfFile)
    /\ started' = TRUE
    /\ UNCHANGED <<indexFile, dfFile, apiKey, hashSeed, request, response, tieOrder,
                   setupDone>>
    /\ UNCHANGED engineVars
    /\ UNCHANGED idleVars

\* the outcomes of the collaborators a request can meet in this state
ProvidersNow == IF embedding_generator.use_dummy THEN {ProviderUnused} ELSE Providers
OutcomesNow(enhance) ==
    IF enhance /\ recommendation_enhancer.model THEN EnhancerOutcomes ELSE {"unused"}

\* GET /recommend, served once startup has completed; requests are taken one
\* at a time, the next one after the response has gone out
Recommend ==
    /\ started
    /\ response = NoResponse
    /\ \E query \in Queries, k \in 1..MaxK, enhance \in BOOLEAN, provider \in ProvidersNow :
         \E outcome \in OutcomesNow(enhance) :
          \E r \in {recommend(query, k, enhance, provider, outcome)} :
             /\ request' = [query |-> query, k |-> k, enhance |-> enhance,
                            prov |-> r.prov, enh |-> r.enh]
             /\ response' = [status |-> r.status, body |-> r.body, calls |-> r.calls]
             /\ search_engine' =
                  IF "search" \in r.calls
                  THEN search_self(search_engine,
                                   generate_embedding(embedding_generator, hashSeed,
                                                      query, r.prov), k)
                  ELSE search_engine
    /\ UNCHANGED <<indexFile, dfFile, apiKey, hashSeed, started, embedding_generator,
                   recommendation_enhancer, tieOrder, setupDone>>
    /\ UNCHANGED engineVars
    /\ UNCHANGED idleVars

\* the response goes out to the client and the worker is free again
Respond ==
    /\ response # NoResponse
    /\ request' = NoRequest
    /\ response' = NoResponse
    /\ UNCHANGED <<indexFile, dfFile, apiKey, hashSeed, started, search_engine,
                   embedding_generator, recommendation_enhancer, tieOrder, setupDone>>
    /\ UNCHANGED engineVars
    /\ UNCHANGED idleVars

Next == startup_event \/ Recommend \/ Respond

Spec == Init /\ [][Next]_vars

\* ------------------------------------------- the engine driven on its own
\* setup.py and scripts build, save, load and search a FAISSSearchEngine
\* directly, with the web application not running
Embedding(d, c) == [d |-> d, c |-> c]
BuildVecs == { <<Fin(1), Fin(0)>>, <<Fin(1), Fin(1)>> }
Batches ==
    { [i \in 1..Len(v) |-> Embedding(d, v[i])] : d \in Dims, v \in SeqsUpTo(BuildVecs, MaxN) }
    \cup { << Embedding(DefaultDimension, <<Fin(1), Fin(0)>>),
              Embedding(OtherDimension, <<Fin(1), Fin(1)>>) >>,
           << Embedding(OtherDimension, <<Fin(1), Fin(0)>>),
              Embedding(OtherDimension, <<Fin(1), Fin(1)>>),
              Embedding(DefaultDimension, <<Fin(1), Fin(1)>>) >> }
Probes == { Embedding(d, c) : d \in Dims, c \in BuildVecs }

\* the table setup.py hands to build_index with a batch of n embeddings: one
\* row per embedding, as clean_scraped_data leaves them (the description of
\* row 2 held blanks only and is the empty string)
ScrapedRow(i) ==
    [CatalogRow(i) EXCEPT !.description = IF i = 2 THEN PyStr("") ELSE PyStr("desc")]
Scraped(n) == [some |-> TRUE, rows |-> [i \in 1..n |-> ScrapedRow(i)]]

\* the artifacts found on disk before the engine is driven
EngineIndexFiles ==
    { f \in IndexFiles :
        f.ok => /\ f.index.d = OtherDimension
                /\ f.index.vecs = << <<Fin(1), Fin(1)>>, <<Fin(1), Fin(1)>> >> }

EngineInit ==
    /\ indexFile \in EngineIndexFiles
    /\ dfFile \in DfFiles
    /\ apiKey = FALSE
    /\ hashSeed = 0
    /\ started = FALSE
    /\ search_engine = None
    /\ embedding_generator = NoGenerator
    /\ recommendation_enhancer = NoEnhancer
    /\ request = NoRequest
    /\ response = NoResponse
    /\ setupDone = FALSE
    /\ tieOrder \in TieOrders
    /\ eng = FAISSSearchEngine(DefaultDimension)
    /\ succeeded = FALSE
    /\ saver = None
    /\ last = NoCall
    /\ torn = FALSE
    /\ SanitizerIdle
    /\ IngestIdle
    /\ ReloadIdle

\* engine.build_index(embeddings, df) on the engine at hand
BuildIndex ==
    /\ last = NoCall
    /\ \E batch \in Batches :
         \E r \in {build_index(eng, batch, Scraped(Len(batch)))} :
            /\ eng' = r.engine
            /\ succeeded' = (succeeded \/ r.raised = "")
            /\ last' = [NoCall EXCEPT !.op = "build_index", !.pre = eng,
                                      !.raised = r.raised, !.batch = batch]
    /\ UNCHANGED <<indexFile, dfFile, saver, tieOrder, torn>>
    /\ UNCHANGED appVars
    /\ UNCHANGED idleVars

\* engine = build_faiss_index(embedding_list, df): the name is bound to the
\* new engine only if the call returns
BuildFaissIndex ==
    /\ last = NoCall
    /\ \E batch \in Batches :
         \E r \in {build_faiss_index(batch, Scraped(Len(batch)))} :
            /\ eng' = IF r.raised = "" THEN r.engine ELSE eng
            /\ succeeded' = IF r.raised = "" THEN TRUE ELSE succeeded
            /\ last' = [NoCall EXCEPT !.op = "build_faiss_index", !.pre = eng,
                                      !.raised = r.raised, !.batch = batch]
    /\ UNCHANGED <<indexFile, dfFile, saver, tieOrder, torn>>
    /\ UNCHANGED appVars
    /\ UNCHANGED idleVars

\* engine.save_index()
SaveIndex ==
    /\ last = NoCall
    /\ \E r \in {save_index(eng, indexFile, dfFile)} :
         /\ indexFile' = r.ifile
         /\ dfFile' = r.dfile
         /\ saver' = IF r.written = {"index", "df"} THEN eng
                      ELSE IF r.written = {} THEN saver
                      ELSE None
         /\ torn' = IF r.written = {} THEN torn ELSE r.written = {"index"}
         /\ last' = [NoCall EXCEPT !.op = "save_index", !.pre = eng,
                                   !.raised = r.raised, !.written = r.written]
    /\ UNCHANGED <<eng, succeeded, tieOrder>>
    /\ UNCHANGED appVars
    /\ UNCHANGED idleVars

\* engine.load_index(), on the engine at hand or on a new FAISSSearchEngine()
LoadIndex ==
    /\ last = NoCall
    /\ \E fresh \in BOOLEAN :
         LET self == IF fresh THEN FAISSSearchEngine(DefaultDimension) ELSE eng
         IN \E r \in {load_index(self, indexFile, dfFile)} :
               /\ eng' = r.engine
               /\ succeeded' = ((~fresh /\ succeeded) \/ r.raised = "")
               /\ last' = [NoCall EXCEPT !.op = "load_index", !.pre = self,
                                         !.raised = r.raised, !.fresh = fresh]
    /\ UNCHANGED <<indexFile, dfFile, saver, tieOrder, torn>>
    /\ UNCHANGED appVars
    /\ UNCHANGED idleVars

\* engine.search(query_embedding, k)
Search ==
    /\ last = NoCall
    /\ \E q \in Probes, k \in 1..MaxK :
         \E r \in {search(eng, q, k)} :
            /\ eng' = search_self(eng, q, k)
            /\ last' = [NoCall EXCEPT !.op = "search", !.pre = eng, !.raised = r.raised,
                                      !.q = q, !.k = k, !.indices = r.indices,
                                      !.scores = r.scores]
    /\ UNCHANGED <<indexFile, dfFile, succeeded, saver, tieOrder, torn>>
    /\ UNCHANGED appVars
    /\ UNCHANGED idleVars

\* the call has returned (or raised) and the script goes on
Return ==
    /\ last # NoCall
    /\ last' = NoCall
    /\ UNCHANGED <<indexFile, dfFile, tieOrder, eng, succeeded, saver, torn>>
    /\ UNCHANGED appVars
    /\ UNCHANGED idleVars

EngineNext ==
    BuildIndex \/ BuildFaissIndex \/ SaveIndex \/ LoadIndex \/ Search \/ Return

EngineSpec == EngineInit /\ [][EngineNext]_vars

\* ------------------------------------------------------------------ claims
Served == response # NoResponse
\* the query of the request is empty or holds whitespace only
Blank == \A i \in 1..Len(request.query) : request.query[i] = " "
HasIndex == search_engine.some /\ search_engine.index.some
Results == response.body.results

\* the embedding and the search result of the request just served (the
\* handler leaves the state they are computed from untouched)
RequestEmbedding ==
    generate_embedding(embedding_generator, hashSeed, request.query, request.prov)
RequestFound == search_index(RequestEmbedding, search_engine, request.k)

\* the index is loaded with as many vectors as the table has rows, at least one
WellLoaded ==
    /\ HasIndex
    /\ search_engine.df.some
    /\ Len(search_engine.index.vecs) = Len(search_engine.df.rows)
    /\ Len(search_engine.index.vecs) >= 1

\* C1: a `results` list returned by recommend has at most k entries and the
\* entry at 0-based position i carries rank i+1 (ranks 1..len, dense).
C1_RanksDenseAtMostK ==
    (Served /\ "results" \in response.body.keys) =>
        /\ Len(Results) <= request.k
        /\ \A i \in 1..Len(Results) : Results[i].rank = PyInt(i)

C1_Witness ==
    /\ Served /\ ~Blank /\ HasIndex
    /\ response.status = 200
    /\ request.k >= 2
    /\ Len(Results) = request.k

\* C2 (as claimed): every response of recommend, on every path, is an object
\* with a `results` key.
C2_AlwaysResultsKey == Served => "results" \in response.body.keys

\* Every score value the sanitizers can be handed, numeric or not
ScoreValues == { Fin(-1), Fin(0), Fin(2), Lowest, NaN, PosInf, NegInf, PyStr("x"), NpInt(1) }
ExpectedScore(raw) ==
    IF raw.t = "float" /\ raw.s \in {"fin", "lowest"} THEN raw ELSE ZeroFloat

\* C3: every similarity_score returned is a finite float; a NaN, +/-Infinity
\* or non-numeric raw score is returned as 0.0, a finite raw score unchanged.
C3_ScoresFinite ==
    /\ \A raw \in ScoreValues :
          ensure_json_serializable_leaf(format_score(sanitize_score(raw))) = ExpectedScore(raw)
    /\ (Served /\ "results" \in response.body.keys) =>
          \A i \in 1..Len(Results) :
             /\ isfinite(Results[i].similarity_score)
             /\ Results[i].similarity_score = ExpectedScore(RequestFound.scores[i])

C3_Witness ==
    /\ Served /\ response.status = 200 /\ Len(Results) >= 2
    /\ \E i \in 1..Len(Results) :
          RequestFound.scores[i] = PosInf /\ Results[i].similarity_score = ZeroFloat
    /\ \E i \in 1..Len(Results) :
          RequestFound.scores[i].s = "fin" /\ RequestFound.scores[i].n # 0

\* C4: an empty or whitespace-only query is answered 400 (InvalidQuery) in
\* every service state, without any call to the embedding provider or the index.
C4_BlankQueryRejected ==
    (Served /\ Blank) => (response.status = 400 /\ response.calls = {})

C4_Witness ==
    /\ Served /\ Blank /\ request.query # <<>>
    /\ HasIndex
    /\ response.status = 400

\* C5 (as claimed): a non-blank query is answered 503 (ServiceUnavailable)
\* whenever the engine's index is absent.
C5_Unavailable503 ==
    (Served /\ ~Blank /\ ~HasIndex) => response.status = 503

\* C6 (as claimed): a failure raised while handling the request is answered
\* with exactly {error, results: []}.
C6_StructuredError ==
    (Served /\ response.status = 200 /\ "error" \in response.body.keys) =>
        (response.body.keys = {"error", "results"} /\ Results = <<>>)

\* the response the same request gets without enhancement
BaseResponse ==
    recommend(request.query, request.k, FALSE, request.prov, "unused")
BaseSucceeded ==
    /\ BaseResponse.status = 200
    /\ BaseResponse.body.keys = {"results"}

\* C7 (as claimed): any enhancer failure (exception, unparsable output) makes
\* recommend return the unenhanced base result.
C7_FailureReturnsBase ==
    (Served /\ request.enh \in {"raises", "unparsable"} /\ BaseSucceeded) =>
        (response.status = 200 /\ response.body = BaseResponse.body)

\* C7 (amended): an enhancer exception returns the unenhanced base result;
\* unparsable model output returns the base `results` list unchanged plus a
\* placeholder `enhanced` object; neither yields an error response.
C7_FailureKeepsBaseResults ==
    (Served /\ request.enh \in {"raises", "unparsable"} /\ BaseSucceeded) =>
        /\ response.status = 200
        /\ "error" \notin response.body.keys
        /\ Results = BaseResponse.body.results
        /\ request.enh = "raises" => response.body = BaseResponse.body
        /\ request.enh = "unparsable" =>
              response.body = [BaseResponse.body EXCEPT !.keys = {"results", "enhanced"},
                                                        !.enhanced = "default"]

C7_Witness ==
    /\ Served /\ request.enh = "raises" /\ BaseSucceeded
    /\ "enhance" \in response.calls
    /\ Len(Results) >= 1

\* C8 (as claimed): with a well-loaded index of any dimension, a failing or
\* unconfigured embedding provider still gives a successful result set.
C8_FallbackSucceeds ==
    (Served /\ ~Blank /\ WellLoaded
        /\ (embedding_generator.use_dummy \/ request.prov.fails)) =>
        /\ response.status = 200
        /\ "results" \in response.body.keys
        /\ "error" \notin response.body.keys

\* C9: serving a recommend request leaves the engine's index, metadata table
\* and dimension as they were, whether the request succeeds or fails.
C9_EngineUnchanged ==
    [][(response = NoResponse /\ response' # NoResponse) =>
          search_engine' = search_engine]_vars

C9_Witness ==
    /\ Served /\ "search" \in response.calls
    /\ HasIndex /\ RequestFound.raised = ""
    /\ response.status = 200 /\ Len(Results) >= 1

\* C10 (as claimed): search on an index of N >= 1 vectors returns exactly
\* min(k, N) (position, score) pairs; for k > N that is N pairs, not k.
C10_SearchLength ==
    (Served /\ "search" \in response.calls /\ WellLoaded /\ RequestFound.raised = "") =>
        /\ Len(RequestFound.indices) = Min(request.k, Len(search_engine.index.vecs))
        /\ Len(RequestFound.scores) = Min(request.k, Len(search_engine.index.vecs))

\* C20: when some position of the search result is not a row of the table
\* and some other is, the response still carries the records of the valid
\* positions and leaves out only the offending ones.
ValidSlots ==
    { j \in 1..Len(RequestFound.indices) : iloc_ok(search_engine.df, RequestFound.indices[j]) }
C20_ValidRowsKept ==
    (/\ Served
     /\ "format" \in response.calls
     /\ search_engine.df.some
     /\ ValidSlots # {}
     /\ ValidSlots # DOMAIN RequestFound.indices)
    => /\ "results" \in response.body.keys
       /\ Len(Results) = Cardinality(ValidSlots)
       /\ \A i \in 1..Len(Results) :
             \E j \in ValidSlots :
                Results[i].name = iloc(search_engine.df, RequestFound.indices[j]).name

\* --------------------------------------------- claims on the engine alone
Called(op) == last.op = op
Returned(op) == last.op = op /\ last.raised = ""
\* the slots of the last search result that name a stored vector
Found == { j \in 1..Len(last.indices) : last.indices[j] >= 0 }

\* C11: the pairs a search returns are in descending order of score, and
\* pairs of equal score are in ascending order of position.
C11_DescendingTiesAscending ==
    Returned("search") =>
        \A i \in Found, j \in Found :
            i < j => \/ FLess(last.scores[j], last.scores[i])
                     \/ /\ last.scores[i] = last.scores[j]
                        /\ last.indices[i] < last.indices[j]

\* an engine in a state a successful build_index leaves: index and table
\* set, the index of the engine's dimension
Built(e) == e.some /\ e.index.some /\ e.df.some /\ e.index.d = e.dimension

\* C12: after save_index on a built engine and load_index of the two
\* artifacts into a new engine, the new engine has the saved engine's
\* dimension and answers every probe and every k with the same positions
\* and scores.
C12_RoundTrip ==
    (Called("load_index") /\ last.fresh /\ Built(saver)) =>
        /\ last.raised = ""
        /\ eng.dimension = saver.dimension
        /\ \A q \in Probes, k \in 1..MaxK : search(eng, q, k) = search(saver, q, k)
C12_Witness ==
    /\ Returned("load_index")
    /\ last.fresh
    /\ Built(saver)
    /\ saver.dimension = OtherDimension
    /\ Len(saver.index.vecs) = 2
    /\ \E q \in Probes : search(eng, q, 2).raised = ""

\* C13: load_index with the index file or the table file (or both) absent
\* raises FileNotFoundError and leaves the engine's index, table and
\* dimension as they were before the call.
C13_MissingArtifact ==
    (Called("load_index") /\ (~indexFile.exists \/ ~dfFile.exists)) =>
        /\ last.raised = "FileNotFoundError"
        /\ eng = last.pre
C13_Witness ==
    /\ Called("load_index")
    /\ indexFile.exists /\ indexFile.ok
    /\ ~dfFile.exists
    /\ last.pre.index.some
    /\ last.pre.index # indexFile.index
    /\ last.raised = "FileNotFoundError"

\* C14: load_index raises when the index artifact holds another number of
\* vectors than the table artifact has rows.
C14_CountMismatchRejected ==
    (/\ Called("load_index")
     /\ indexFile.ok /\ dfFile.ok
     /\ Len(indexFile.index.vecs) # Len(dfFile.df.rows))
    => last.raised # ""

\* C15: save_index on an engine without an index raises and writes neither
\* artifact.
C15_SaveUnbuiltRaises ==
    (Called("save_index") /\ ~last.pre.index.some) =>
        /\ last.raised # ""
        /\ last.written = {}

\* C16: search with a query whose length is not the index's dimension
\* raises, returns no pair and leaves the engine as it was.
C16_QueryDimensionMismatch ==
    (/\ Called("search")
     /\ last.pre.index.some
     /\ last.q.d # last.pre.index.d)
    => /\ last.raised = "AssertionError"
       /\ last.indices = <<>> /\ last.scores = <<>>
       /\ eng = last.pre
C16_Witness ==
    /\ Called("search")
    /\ Len(last.pre.index.vecs) >= 1
    /\ last.q.d # last.pre.index.d
    /\ last.raised = "AssertionError"

\* some embedding of the batch has another length than the first
Mixed(batch) == \E i \in 1..Len(batch) : batch[i].d # batch[1].d

\* C17: a build from a batch of mixed lengths raises, and the engine at
\* hand is what it was before: no engine comes out of that build.
C17_MixedBatchRejected ==
    (last.op \in {"build_index", "build_faiss_index"} /\ Mixed(last.batch)) =>
        /\ last.raised = "ValueError"
        /\ eng = last.pre
C17_Witness ==
    /\ Called("build_index")
    /\ Mixed(last.batch)
    /\ ~last.pre.index.some
    /\ last.raised = "ValueError"

\* C18: a search on an engine none of whose build_index or load_index calls
\* has returned raises the no-index error and returns no pair.
C18_SearchBeforeBuild ==
    (Called("search") /\ ~succeeded) =>
        /\ last.raised = "No index has been built or loaded"
        /\ last.indices = <<>> /\ last.scores = <<>>

\* C19: whenever the engine has an index after a build_index or load_index
\* has returned, the index holds as many vectors as the table has rows.
C19_VectorsMatchRows ==
    (succeeded /\ eng.index.some) =>
        /\ eng.df.some
        /\ Len(eng.index.vecs) = Len(eng.df.rows)

\* ------------------------------------------------ claims C21 to C30
\* C22: once startup has run, /health answers ok only if the index has been
\* loaded; a failed load leaves the service up with a status other than ok.
C22_HealthOkOnlyWhenLoaded ==
    (started /\ health_check.status = "ok") =>
        (search_engine.index.some /\ search_engine.df.some)

\* C26: with a well-loaded index, every record of a result set is the table
\* row of a position the index matched, and no record occurs twice.
C26_RecordsMatchedOnce ==
    (Served /\ WellLoaded /\ response.status = 200 /\ "results" \in response.body.keys) =>
        /\ \A i \in 1..Len(Results) :
              \E j \in 1..Len(RequestFound.indices) :
                 /\ RequestFound.indices[j] >= 0
                 /\ Results[i].name = search_engine.df.rows[RequestFound.indices[j] + 1].name
        /\ \A i \in 1..Len(Results), j \in 1..Len(Results) :
              i # j => Results[i].name # Results[j].name

\* C27: a load_index that raises, for whatever reason, leaves the engine's
\* index, table and dimension as they were before the call.
C27_LoadAllOrNothing ==
    (Called("load_index") /\ last.raised # "") => eng = last.pre

\* C29: an enhanced response carries the results list of the unenhanced
\* response of the same request, unchanged, and has no other new top-level
\* key than `enhanced`.
C29_EnhancementOnlyAdds ==
    (Served /\ "enhanced" \in response.body.keys) =>
        /\ Results = BaseResponse.body.results
        /\ response.body.keys = BaseResponse.body.keys \cup {"enhanced"}
        /\ "enhanced" \notin BaseResponse.body.keys
C29_Witness ==
    /\ Served
    /\ "enhanced" \in response.body.keys
    /\ request.enh = "ok"
    /\ Len(Results) >= 2
    /\ \E i \in 1..Len(Results) : Results[i].similarity_score # ZeroFloat

\* C24: a reader that loads the two artifacts after a save_index never gets
\* the index of one save together with a table that this save did not write.
C24_ArtifactsOfOneSave ==
    Returned("load_index") => ~torn

\* --------------------------------------------- the sanitizer on its own
MaxItems == 2
Leaves ==
    { PyInt(1), PyBool(TRUE), PyStr("a"), PyNone, Fin(2), Lowest, NaN, PosInf, NegInf,
      NpInt(3), NpFloat32NaN, Timestamp(4) }
Lists(S) == { PyList(items) : items \in SeqsUpTo(S, MaxItems) }
\* the structures handed to the sanitizer: leaves, lists, lists of lists,
\* dicts of leaves and of lists, and the shape of a result body
Structures ==
    Leaves
    \cup Lists(Leaves)
    \cup { PyList(<<l, x>>) : l \in Lists({NaN, NpInt(3)}), x \in Leaves }
    \cup { PyDict(<<"a">>, <<v>>) : v \in Leaves \cup Lists({PosInf, PyStr("a")}) }
    \cup { PyDict(<<"results">>,
                  << PyList(<< PyDict(<<"rank", "similarity_score">>, <<r, v>>) >>) >>) :
             r \in {PyInt(1), NpInt(3)}, v \in Leaves }

SanitizeInit ==
    /\ NoFiles
    /\ AppIdle
    /\ tieOrder = "asc"
    /\ EngineIdle
    /\ structure \in Structures
    /\ sanitized = NotSanitized
    /\ IngestIdle
    /\ ReloadIdle

\* results = ensure_json_serializable(results)
Sanitize ==
    /\ sanitized.passes = 0
    /\ sanitized' = [sanitized EXCEPT !.passes = 1,
                                      !.once = deep_ensure_json_serializable(structure)]
    /\ UNCHANGED <<indexFile, dfFile, tieOrder, structure>>
    /\ UNCHANGED appVars
    /\ UNCHANGED engineVars
    /\ UNCHANGED <<ingestVars, reloadVars>>

\* the sanitized structure is sanitized again (the enhancer and the
\* Streamlit front end run the same function on what recommend hands them)
SanitizeAgain ==
    /\ sanitized.passes = 1
    /\ sanitized' = [sanitized EXCEPT !.passes = 2,
                                      !.twice = deep_ensure_json_serializable(sanitized.once)]
    /\ UNCHANGED <<indexFile, dfFile, tieOrder, structure>>
    /\ UNCHANGED appVars
    /\ UNCHANGED engineVars
    /\ UNCHANGED <<ingestVars, reloadVars>>

SanitizeNext == Sanitize \/ SanitizeAgain

SanitizeSpec == SanitizeInit /\ [][SanitizeNext]_vars

\* y is what the rule makes of x: containers keep their keys, length and
\* order, primitives and finite floats stay, a non-finite float is 0.0 and
\* a value of any other type is a string
RECURSIVE Conforms(_, _)
Conforms(x, y) ==
    IF x.t = "dict"
    THEN /\ y.t = "dict" /\ y.keys = x.keys /\ Len(y.items) = Len(x.items)
         /\ \A i \in 1..Len(x.items) : Conforms(x.items[i], y.items[i])
    ELSE IF x.t = "list"
    THEN /\ y.t = "list" /\ Len(y.items) = Len(x.items)
         /\ \A i \in 1..Len(x.items) : Conforms(x.items[i], y.items[i])
    ELSE IF x.t \in {"bool", "str", "none", "int"} THEN y = x
    ELSE IF x.t = "float"
    THEN y = (IF x.s \in {"nan", "inf"} THEN Fin(0) ELSE x)
    ELSE y.t = "str"

\* no leaf of y is a non-finite float or of a type json does not know
RECURSIVE Clean(_)
Clean(y) ==
    IF y.t \in {"dict", "list"} THEN \A i \in 1..Len(y.items) : Clean(y.items[i])
    ELSE /\ y.t \in {"bool", "str", "none", "int", "float"}
         /\ y.t = "float" => y.s \notin {"nan", "inf"}

\* C21: the sanitizer maps containers member-wise, leaves primitives and
\* finite floats as they are, turns a non-finite float into 0.0 and any
\* other value into a string; nothing else is left in its output.
C21_DeepSanitizer ==
    sanitized.passes >= 1 => (Conforms(structure, sanitized.once) /\ Clean(sanitized.once))
C21_Witness ==
    /\ sanitized.passes >= 1
    /\ structure.t = "dict"
    /\ structure.items[1].t = "list"
    /\ ~Clean(structure)
    /\ sanitized.once # structure

\* C30: sanitizing a sanitized structure changes nothing.
C30_Idempotent ==
    sanitized.passes = 2 => sanitized.twice = sanitized.once
C30_Witness ==
    /\ sanitized.passes = 2
    /\ structure.t = "list"
    /\ Len(structure.items) = 2
    /\ sanitized.once # structure

\* ------------------------------------------------- ingestion on its own
\* scraper_selenium.SHLScraper and setup.clean_scraped_data.  An element of
\* a catalogue page is its href and its text (the parent's text where its
\* own is empty), already stripped.
Hrefs == { "", "https://shl/view/a", "https://shl/view/b", "https://shl/view/sap",
           "https://shl/about" }
Texts == { "", "A", "B", "Unknown name", "Find assessments" }
Elements == { [href |-> h, text |-> t] : h \in Hrefs, t \in Texts }
Pages == SeqsUpTo(Elements, MaxItems)

\* "view" in href or "products" in href or "catalog" in href
is_product_href(href) == href \in { "https://shl/view/a", "https://shl/view/b",
                                    "https://shl/view/sap" }
\* the known links the scraper always starts from (one stands for the ten)
fallback_assessment_info == << [url |-> "https://shl/view/sap", name |-> "SAP"] >>

RECURSIVE element_links(_)
element_links(elements) ==
    IF elements = <<>> THEN <<>>
    ELSE LET e == Head(elements)
         IN (IF e.href # "" /\ e.text # "" /\ is_product_href(e.href)
             THEN << [url |-> e.href, name |-> e.text] >>
             ELSE <<>>) \o element_links(Tail(elements))

\* mutant: the links are returned without the pass that removes duplicates
unique_links_all(assessment_links, seen) == assessment_links

\* the first link of every url, if it has a name, in order of appearance
RECURSIVE unique_links(_, _)
unique_links(assessment_links, seen) ==
    IF assessment_links = <<>> THEN <<>>
    ELSE LET item == Head(assessment_links)
         IN IF item.url \notin seen /\ item.name # ""
            THEN <<item>> \o unique_links(Tail(assessment_links), seen \cup {item.url})
            ELSE unique_links(Tail(assessment_links), seen)

_get_assessment_links(elements) ==
    unique_links(fallback_assessment_info \o element_links(elements), {})

\* scrape_assessments: one record per link; when the product page cannot be
\* processed the record keeps the link's name and url and nothing else
scraped_record(link, failed) ==
    [name |-> PyStr(link.name),
     url |-> PyStr(link.url),
     description |-> PyStr(IF failed THEN "Not specified" ELSE "  "),
     duration |-> PyStr(IF failed THEN "Not specified" ELSE "30 min"),
     remote |-> PyStr(IF failed THEN "Not specified" ELSE "Yes"),
     adaptive |-> PyStr(IF failed THEN "Not specified" ELSE "We use cookies"),
     test_type |-> PyStr(IF failed THEN "Not specified" ELSE "Cognitive")]

scrape_assessments(links, failing) ==
    [i \in 1..Len(links) |-> scraped_record(links[i], i \in failing)]

\* setup.clean_scraped_data
clean_field(value) ==
    IF isnan(value) \/ value.s = "" THEN PyStr("Not specified")
    ELSE IF value.s = "  " THEN PyStr("")
    ELSE IF value.s = "We use cookies" THEN PyStr("Not specified")
    ELSE value

extract_duration(text) == IF text.s = "30 min" THEN PyStr("30 minutes") ELSE text

\* df.drop_duplicates(subset=["name", "url"], keep="first")
RECURSIVE drop_duplicates(_, _)
drop_duplicates(rows, seen) ==
    IF rows = <<>> THEN <<>>
    ELSE LET key == <<Head(rows).name, Head(rows).url>>
         IN IF key \in seen THEN drop_duplicates(Tail(rows), seen)
            ELSE <<Head(rows)>> \o drop_duplicates(Tail(rows), seen \cup {key})

\* name.str.contains("Find assessments" / "Unknown", case=False)
meaningless_name(name) == name.s \in { "Unknown name", "Find assessments" }

RECURSIVE drop_meaningless(_)
drop_meaningless(rows) ==
    IF rows = <<>> THEN <<>>
    ELSE (IF meaningless_name(Head(rows).name) THEN <<>> ELSE <<Head(rows)>>)
         \o drop_meaningless(Tail(rows))

clean_scraped_data(rows) ==
    LET cleaned == [i \in 1..Len(rows) |->
                      [rows[i] EXCEPT !.description = clean_field(@),
                                      !.duration = extract_duration(clean_field(@)),
                                      !.remote = clean_field(@),
                                      !.adaptive = clean_field(@),
                                      !.test_type = clean_field(@)]]
    IN drop_meaningless(drop_duplicates(cleaned, {}))

IngestInit ==
    /\ NoFiles
    /\ AppIdle
    /\ tieOrder = "asc"
    /\ EngineIdle
    /\ SanitizerIdle
    /\ ReloadIdle
    /\ page \in Pages
    /\ ingest = NotIngested

GetAssessmentLinks ==
    /\ ingest.stage = ""
    /\ ingest' = [ingest EXCEPT !.stage = "links", !.links = _get_assessment_links(page)]
    /\ UNCHANGED <<indexFile, dfFile, tieOrder, page>>
    /\ UNCHANGED <<appVars, engineVars, sanitizerVars, reloadVars>>

ScrapeAssessments ==
    /\ ingest.stage = "links"
    /\ \E failing \in SUBSET (1..Len(ingest.links)) :
          ingest' = [ingest EXCEPT !.stage = "scraped",
                                   !.df = scrape_assessments(ingest.links, failing)]
    /\ UNCHANGED <<indexFile, dfFile, tieOrder, page>>
    /\ UNCHANGED <<appVars, engineVars, sanitizerVars, reloadVars>>

CleanScrapedData ==
    /\ ingest.stage = "scraped"
    /\ ingest' = [ingest EXCEPT !.stage = "cleaned", !.df = clean_scraped_data(ingest.df)]
    /\ UNCHANGED <<indexFile, dfFile, tieOrder, page>>
    /\ UNCHANGED <<appVars, engineVars, sanitizerVars, reloadVars>>

IngestNext == GetAssessmentLinks \/ ScrapeAssessments \/ CleanScrapedData

IngestSpec == IngestInit /\ [][IngestNext]_vars

\* C25: in the catalogue that ingestion produces no two records have the
\* same url and no record has an empty name or an empty url.
C25_CatalogKeys ==
    ingest.stage = "cleaned" =>
        /\ \A i \in 1..Len(ingest.df), j \in 1..Len(ingest.df) :
              i # j => ingest.df[i].url # ingest.df[j].url
        /\ \A i \in 1..Len(ingest.df) :
              ingest.df[i].name # PyStr("") /\ ingest.df[i].url # PyStr("")
C25_Witness ==
    /\ ingest.stage = "cleaned"
    /\ Len(page) = 2
    /\ page[1].href = page[2].href
    /\ page[1].text # page[2].text
    /\ page[1].text = "A"
    /\ is_product_href(page[1].href)
    /\ Len(ingest.df) = 2

\* ------------------------------------------------ setup.py before the service
\* setup(): the table artifact after the run and whether the run reached
\* "Setup complete!".  use_existing is the operator's answer to the prompt,
\* scrape_ok whether scraping and cleaning went through, n the number of
\* assessments scraped and d the length of the embeddings generated.  The
\* engine that build_faiss_index returns is dropped: nothing writes
\* shl_faiss_index.bin.
setup(dfile, api_key, use_existing, scrape_ok, n, d) ==
    LET reuse == dfile.exists /\ use_existing
        df == IF reuse THEN dfile.df ELSE Scraped(n)
        written == IF reuse THEN dfile
                   ELSE [exists |-> TRUE, ok |-> TRUE, df |-> read_csv_of_to_csv(df)]
        embeddings == [i \in 1..Len(df.rows) |-> Embedding(d, <<Fin(1), Fin(i - 1)>>)]
    IN IF reuse /\ ~dfile.ok THEN [dfile |-> dfile, complete |-> FALSE]
       ELSE IF ~reuse /\ ~scrape_ok THEN [dfile |-> dfile, complete |-> FALSE]
       ELSE IF ~api_key THEN [dfile |-> written, complete |-> FALSE]
       ELSE [dfile |-> written,
             complete |-> build_faiss_index(embeddings, df).raised = ""]

SetupInit ==
    /\ indexFile \in EngineIndexFiles
    /\ dfFile \in DfFiles
    /\ apiKey \in BOOLEAN
    /\ hashSeed = 0
    /\ started = FALSE
    /\ search_engine = None
    /\ embedding_generator = NoGenerator
    /\ recommendation_enhancer = NoEnhancer
    /\ request = NoRequest
    /\ response = NoResponse
    /\ setupDone = FALSE
    /\ tieOrder \in TieOrders
    /\ EngineIdle
    /\ SanitizerIdle
    /\ IngestIdle
    /\ ReloadIdle

\* python setup.py, run before the service is started
Setup ==
    /\ ~started
    /\ ~setupDone
    /\ \E use_existing \in BOOLEAN, scrape_ok \in BOOLEAN, n \in 0..MaxN, d \in Dims :
         \E r \in {setup(dfFile, apiKey, use_existing, scrape_ok, n, d)} :
            /\ dfFile' = r.dfile
            /\ setupDone' = r.complete
    /\ UNCHANGED <<indexFile, tieOrder, apiKey, hashSeed, started, search_engine,
                   embedding_generator, recommendation_enhancer, request, response>>
    /\ UNCHANGED engineVars
    /\ UNCHANGED idleVars

SetupNext == Setup \/ startup_event \/ Recommend \/ Respond

SetupSpec == SetupInit /\ [][SetupNext]_vars

\* C28: once setup() has run to completion and the service has been started
\* after it, both artifacts exist and the service has loaded an index that
\* matches the table, so recommend is available.
C28_SetupMakesServiceAvailable ==
    (setupDone /\ started) =>
        /\ indexFile.exists /\ dfFile.exists
        /\ WellLoaded

\* ------------------------- a load_index beside a request on the same engine
\* The serving engine holds one version of the index and its table; the
\* artifacts on disk hold another.  load_index runs statement by statement
\* on the serving engine while recommend reads the engine twice: the index
\* in search_index and the table in format_results.
OldIndex == [some |-> TRUE, d |-> OtherDimension,
             vecs |-> << <<Fin(1), Fin(0)>>, <<Fin(1), Fin(1)>> >>]
OldDf == [some |-> TRUE, rows |-> Table(2)]
OldEngine == [FAISSSearchEngine(DefaultDimension) EXCEPT
                 !.index = OldIndex, !.df = OldDf, !.dimension = OtherDimension]

ReloadInit ==
    /\ indexFile \in IndexFiles
    /\ dfFile \in DfFiles
    /\ indexFile.index # OldIndex
    /\ dfFile.df # OldDf
    /\ apiKey = FALSE
    /\ hashSeed = 0
    /\ started = TRUE
    /\ search_engine = OldEngine
    /\ embedding_generator = EmbeddingGenerator(FALSE, FALSE)
    /\ recommendation_enhancer = RecommendationEnhancer(FALSE, FALSE)
    /\ request = NoRequest
    /\ response = NoResponse
    /\ setupDone = FALSE
    /\ tieOrder = "asc"
    /\ EngineIdle
    /\ SanitizerIdle
    /\ IngestIdle
    /\ reload_pc = "exists"
    /\ reader = [NoReader EXCEPT !.pc = "search"]

ReloadFrame ==
    /\ UNCHANGED <<indexFile, dfFile, tieOrder, apiKey, hashSeed, started,
                   embedding_generator, recommendation_enhancer, request, response,
                   setupDone>>
    /\ UNCHANGED <<engineVars, sanitizerVars, ingestVars>>

\* load_index, search.py:84-86: both paths must exist
LoadExists ==
    /\ reload_pc = "exists"
    /\ reload_pc' = IF indexFile.exists /\ dfFile.exists THEN "read_index" ELSE "raised"
    /\ UNCHANGED <<search_engine, reader>>
    /\ ReloadFrame

\* search.py:89: self.index = faiss.read_index(index_path)
LoadReadIndex ==
    /\ reload_pc = "read_index"
    /\ IF indexFile.ok
       THEN /\ search_engine' = [search_engine EXCEPT !.index = indexFile.index]
            /\ reload_pc' = "read_csv"
       ELSE /\ reload_pc' = "raised"
            /\ UNCHANGED search_engine
    /\ UNCHANGED reader
    /\ ReloadFrame

\* search.py:92: self.df = pd.read_csv(df_path)
LoadReadCsv ==
    /\ reload_pc = "read_csv"
    /\ IF dfFile.ok
       THEN /\ search_engine' = [search_engine EXCEPT !.df = dfFile.df]
            /\ reload_pc' = "dimension"
       ELSE /\ reload_pc' = "raised"
            /\ UNCHANGED search_engine
    /\ UNCHANGED reader
    /\ ReloadFrame

\* search.py:95: self.dimension = self.index.d
LoadDimension ==
    /\ reload_pc = "dimension"
    /\ search_engine' = [search_engine EXCEPT !.dimension = search_engine.index.d]
    /\ reload_pc' = "returned"
    /\ UNCHANGED reader
    /\ ReloadFrame

\* app.py:108: search_index(query_embedding, search_engine, k) searches the
\* index the engine holds now
RequestSearch ==
    /\ reader.pc = "search"
    /\ reader' = [reader EXCEPT !.pc = "format", !.index = search_engine.index]
    /\ UNCHANGED <<search_engine, reload_pc>>
    /\ ReloadFrame

\* app.py:128: format_results(indices, sanitized_scores, search_engine.df)
\* joins the positions against the table the engine holds now
RequestFormat ==
    /\ reader.pc = "format"
    /\ reader' = [reader EXCEPT !.pc = "done", !.df = search_engine.df]
    /\ UNCHANGED <<search_engine, reload_pc>>
    /\ ReloadFrame

ReloadNext ==
    \/ LoadExists \/ LoadReadIndex \/ LoadReadCsv \/ LoadDimension
    \/ RequestSearch \/ RequestFormat

ReloadSpec == ReloadInit /\ [][ReloadNext]_vars

====
